---------------------------- MODULE Spec2Model ----------------------------
(***************************************************************************)
(* The persistent work queue of the task dispatcher (src/app/main.py,      *)
(* src/app/models.py): the `tasks` table, the create-task handler, the     *)
(* N concurrent task_worker coroutines (claim -> dispatch -> finalize)     *)
(* and the lifespan that starts and cancels them.                          *)
(*                                                                         *)
(* Every action is one resumption of a coroutine between two awaits: the   *)
(* event loop is single-threaded, so the code between two awaits is atomic *)
(* and the awaits are the only interleaving points.  A database statement  *)
(* or commit takes effect when its await completes; an await that raises   *)
(* (database error, CancelledError) leaves the open transaction rolled     *)
(* back.                                                                   *)
(***************************************************************************)
EXTENDS Integers, FiniteSets, Sequences, TLC

\* ------------------------------------------------------------- bounds
MaxTasks == 2        \* rows the create-task handler may insert
NumWorkers == 2      \* workers the lifespan spawns (the code's WORKER_COUNT is 5)
MaxTime == 1         \* datetime.utcnow() takes values 0..MaxTime
MaxRuns == 2         \* times the lifespan is entered in one process (RestartSpec)

Ids == 1..MaxTasks
Workers == 1..NumWorkers
Times == 0..MaxTime

\* ------------------------------------------------------------- values
NoRow == [task_id |-> 0, service |-> "-", status |-> "absent", route |-> "-",
          method |-> "-", params |-> "-", result |-> "-",
          create_at |-> 0, committed |-> FALSE]
NoTask == 0
NoQuery == [eligible |-> {}, skipped |-> {}]
NoResponse == 0
NoOutcome == [kind |-> "none", value |-> "-"]

\* models.py: class RequestStatus
RequestStatus == {"PENDING", "PROCESSING", "SUCCESS", "FAILED"}
\* models.py: class HttpMethod
HttpMethod == {"GET", "POST", "PUT", "DELETE", "PATCH", "HEAD", "OPTIONS"}
\* the methods create-task requests carry in this model: the default, whose
\* response body process_task parses, and one whose body it does not read
RequestMethods == {"POST", "HEAD"}
\* models.py: class ServiceType, by member name as SqlEnum stores it
ServiceType == {"USER", "PAYMENT", "FLIGHT"}
\* models.py: class TaskRequest; the create-task requests of this model, one
\* for each method
RequestFor(m) ==
    IF m = "POST"
    THEN [service |-> "USER", route |-> "/users", params |-> "{name}", method |-> m]
    ELSE [service |-> "PAYMENT", route |-> "/payments", params |-> "{amount}", method |-> m]
Requests == {RequestFor(m) : m \in RequestMethods}
\* the values uuid.uuid4() gives the column task_id
TaskIds == 1..MaxTasks

\* Python values a result can be.  None is Python's None; the JSON values
\* are what response.json() returns: "object" stands for a body holding any
\* JSON value but null; a body holding JSON null parses to None.
None == "None"
JsonBodies == {"object", "null"}
TextBody == "text"            \* a body that does not parse as JSON
Bodies == JsonBodies \cup {TextBody}
Detail == "{detail}"                          \* {"detail": str(e)}
StatusText == "{status_code,text}"
StatusHeaders == "{status_code,headers}"
StatusHeadersText == "{status_code,headers,text}"

\* the column `result`: SQL NULL, or a JSONB document
SqlNull == "SQL NULL"
JsonNull == "jsonb null"

VARIABLES
    TESTING,      \* main.py: TESTING = os.getenv("TESTING") == "1"
    phase,        \* lifespan: "init", "created", "running", "stopping", "stopped", "disposed"
    worker_tasks, \* main.py: len(worker_tasks), the handles the module-level list holds
    schema,       \* Base.metadata.create_all has run
    response,     \* the HTTP status of the last response of create_task (NoResponse: none yet)
    tasks,        \* the table `tasks`: Ids -> row (NoRow where no row was inserted); the
                  \* index is the primary key `id`
    pc,           \* Workers -> the await a task_worker coroutine is suspended at
    task,         \* Workers -> the row task_worker's local `task` holds: selected, and
                  \* from the claim's commit on claimed by this worker (NoTask if none)
    out,          \* Workers -> task_worker's local task_result / error_detail
    cancelReq,    \* Workers -> asyncio.Task.cancel() was called, CancelledError not yet raised
    dispatched,   \* history: Ids -> the workers that called process_task for the row, in order
    outcome,      \* history: Ids -> how the row's process_task call ended: the value it
                  \* returned or the exception it raised (NoOutcome while it has not ended)
    finalized,    \* history: Ids -> the workers that issued a finalize update (SUCCESS or
                  \* FAILED, committed or raised) for the row, in order
    queried       \* history: Workers -> what the open claim transaction's query met when
                  \* it ran: the rows it could choose from (eligible) and the PENDING
                  \* rows it skipped because another transaction had them locked (skipped)

vars == <<TESTING, phase, worker_tasks, schema, response, tasks, pc, task, out, cancelReq, dispatched, outcome, finalized, queried>>


TypeOK ==
    /\ TESTING \in BOOLEAN
    /\ phase \in {"init", "created", "running", "stopping", "stopped", "disposed"}
    /\ worker_tasks \in Nat
    /\ schema \in BOOLEAN
    /\ response \in {NoResponse, 200, 409, 500}
    /\ \A t \in Ids :
          \/ tasks[t] = NoRow
          \/ /\ tasks[t].task_id \in TaskIds
             /\ tasks[t].service \in ServiceType
             /\ tasks[t].status \in RequestStatus
             /\ tasks[t].method \in HttpMethod
             /\ tasks[t].create_at \in Times
             /\ tasks[t].committed \in BOOLEAN
    /\ pc \in [Workers -> {"notstarted", "select", "sleep", "locked", "claimed",
                           "dispatch", "fin_success", "fin_failed",
                           "cancelled", "crashed"}]
    /\ task \in [Workers -> Ids \cup {NoTask}]
    /\ cancelReq \in [Workers -> BOOLEAN]
    /\ \A t \in Ids : dispatched[t] \in Seq(Workers)
    /\ \A t \in Ids : finalized[t] \in Seq(Workers)
    /\ \A t \in Ids : outcome[t].kind \in {"none", "return", "HTTPStatusError", "Exception"}
    /\ queried \in [Workers -> [eligible : SUBSET Ids, skipped : SUBSET Ids]]

\* ------------------------------------------------------------- the store
\* JSONB bind processor (none_as_null=False): Python None is written as the
\* JSON document null, every other value as its JSON encoding.
Serialize(v) == IF v = None THEN JsonNull ELSE v

\* JSONB result processor: SQL NULL and the JSON document null both load as None.
Deserialize(col) == IF col \in {SqlNull, JsonNull} THEN None ELSE col

Exists(t) == tasks[t] # NoRow
\* rows other transactions see (READ COMMITTED)
Visible(t) == Exists(t) /\ tasks[t].committed
Status(t) == tasks[t].status
\* Task.result as a session loads it
Result(t) == Deserialize(tasks[t].result)
Terminal(t) == Visible(t) /\ Status(t) \in {"SUCCESS", "FAILED"}

\* a row lock taken by SELECT ... FOR UPDATE is held until the transaction
\* that took it ends (commit, or rollback on an exception)
LockedBy(w, t) == pc[w] = "locked" /\ task[w] = t
Locked(t) == \E w \in Workers : LockedBy(w, t)

\* the claim query without its status filter: every row is a candidate
ClaimableAnyStatus == {t \in Ids : Visible(t) /\ ~Locked(t)}

\* the claim query without with_for_update(skip_locked=True): rows another
\* claim transaction has selected are candidates too
ClaimableNoLock == {t \in Ids : Visible(t) /\ Status(t) = "PENDING"}

\* the claim query filtering on the wrong status
ClaimableWrongStatus == {t \in Ids : Visible(t) /\ Status(t) = "PROCESSING" /\ ~Locked(t)}

\* .filter(Task.status == RequestStatus.PENDING) ... .with_for_update(skip_locked=True)
Claimable == {t \in Ids : Visible(t) /\ Status(t) = "PENDING" /\ ~Locked(t)}

\* the claim query without order_by: any candidate may come first
AnyRow(S) == S

\* the claim query ordered by create_at descending
LastByCreateAt(S) == {t \in S : \A u \in S : tasks[t].create_at >= tasks[u].create_at}

\* the PENDING rows skip_locked=True passes over
Skipped == {t \in Ids : Visible(t) /\ Status(t) = "PENDING" /\ Locked(t)}

\* .order_by(Task.create_at) ... .limit(1): the rows the query may return first
FirstByCreateAt(S) == {t \in S : \A u \in S : tasks[t].create_at <= tasks[u].create_at}

\* the rows result.scalars().first() may be (empty: the query returns None)
ClaimQuery == FirstByCreateAt(Claimable)

\* ------------------------------------------------------------- process_task
StatusCodes == {200, 500}
\* response.raise_for_status() raises unless the status is 2xx
IsSuccess(code) == code \in 200..299

Responses == [kind : {"response"}, status : StatusCodes, body : Bodies]
             \cup {[kind |-> "exception", status |-> 0, body |-> TextBody]}

\* response.json(): raises on a body that is not JSON (callers test that first)
ParseJson(body) == IF body = "null" THEN None ELSE body

\* what process_task(task) does with the downstream's answer:
\* returns a value, raises httpx.HTTPStatusError, or raises another exception
ProcessTask(method, resp) ==
    IF resp.kind = "exception"
    THEN [kind |-> "Exception", value |-> Detail]
    ELSE IF ~IsSuccess(resp.status)
    THEN [kind |-> "HTTPStatusError", value |-> resp.body]
    ELSE IF method = "HEAD"
    THEN [kind |-> "return", value |-> StatusHeaders]
    ELSE IF method = "OPTIONS"
    THEN [kind |-> "return", value |-> StatusHeadersText]
    ELSE IF resp.body \in JsonBodies
    THEN [kind |-> "return", value |-> ParseJson(resp.body)]
    ELSE [kind |-> "return", value |-> StatusText]

\* an HTTPStatusError handler that never reads the response body
ErrorDetailNoBody(body) == Detail

\* except httpx.HTTPStatusError: e.response.json(), or {"detail": str(e)}
ErrorDetail(body) == IF body \in JsonBodies THEN ParseJson(body) ELSE Detail

\* ------------------------------------------------------------- initial state
Init ==
    /\ TESTING \in BOOLEAN
    /\ phase = "init"
    /\ worker_tasks = 0
    /\ schema = FALSE
    /\ response = NoResponse
    /\ tasks = [t \in Ids |-> NoRow]
    /\ pc = [w \in Workers |-> "notstarted"]
    /\ task = [w \in Workers |-> NoTask]
    /\ out = [w \in Workers |-> None]
    /\ cancelReq = [w \in Workers |-> FALSE]
    /\ dispatched = [t \in Ids |-> <<>>]
    /\ outcome = [t \in Ids |-> NoOutcome]
    /\ finalized = [t \in Ids |-> <<>>]
    /\ queried = [w \in Workers |-> NoQuery]

workerVars == <<pc, task, out, cancelReq, dispatched, outcome, finalized, queried>>
lifeVars == <<TESTING, phase, worker_tasks, schema>>

\* ------------------------------------------------------------- lifespan
\* lifespan, before the yield, outside testing mode:
\* async with async_engine.begin() as conn: await conn.run_sync(create_all)
CreateAll ==
    /\ ~TESTING /\ phase = "init"
    /\ phase' = "created"
    /\ schema' = TRUE
    /\ UNCHANGED <<TESTING, worker_tasks, response, tasks, workerVars>>

\* a lifespan that spawns the workers in testing mode too
SpawnedAlways == Workers

\* the workers lifespan spawns: range(WORKER_COUNT) under `if not TESTING`
Spawned == IF TESTING THEN {} ELSE Workers

\* lifespan up to the yield: worker_tasks.append(asyncio.create_task(...))
\* for each worker, each starting at the top of its loop; the application
\* then serves requests
Startup ==
    /\ phase = IF TESTING THEN "init" ELSE "created"
    /\ phase' = "running"
    /\ worker_tasks' = worker_tasks + Cardinality(Spawned)
    /\ pc' = [w \in Workers |-> IF w \in Spawned THEN "select" ELSE pc[w]]
    /\ UNCHANGED <<TESTING, schema, response, tasks, task, out, cancelReq, dispatched, outcome, finalized, queried>>

Finished(w) == pc[w] \in {"notstarted", "cancelled", "crashed"}

\* lifespan, after the yield: task.cancel() on every handle; cancelling a
\* finished task does nothing
Shutdown ==
    /\ phase = "running"
    /\ phase' = "stopping"
    /\ cancelReq' = [w \in Workers |-> ~Finished(w)]
    /\ UNCHANGED <<TESTING, worker_tasks, schema, response, tasks, pc, task, out, dispatched, outcome, finalized, queried>>

\* a shutdown that does not wait for the workers
GatheredNoWait == TRUE

\* await asyncio.gather(*worker_tasks, return_exceptions=True) returns
\* once every worker has ended
Gathered == \A w \in Workers : Finished(w)

\* the gather returns, then async_engine.dispose() outside testing mode
Dispose ==
    /\ phase = "stopping"
    /\ Gathered
    /\ phase' = IF TESTING THEN "stopped" ELSE "disposed"
    /\ UNCHANGED <<TESTING, worker_tasks, schema, response, tasks, workerVars>>

\* lifespan(app) is entered again in the same process (a test client used
\* as a context manager again, or a direct call as in
\* test_lifespan_production_simulation): the coroutines of the run before
\* have ended and are gone, the module-level state (worker_tasks) is as the
\* run before left it
Reenter ==
    /\ phase \in {"stopped", "disposed"}
    /\ worker_tasks < (MaxRuns - 1) * NumWorkers + 1
    /\ phase' = "init"
    /\ pc' = [w \in Workers |-> "notstarted"]
    /\ task' = [w \in Workers |-> NoTask]
    /\ out' = [w \in Workers |-> None]
    /\ UNCHANGED <<TESTING, worker_tasks, schema, response, tasks, cancelReq, dispatched, outcome, finalized, queried>>

\* ------------------------------------------------------------- create_task
FreeIds == {t \in Ids : ~Exists(t)}
\* default=lambda: str(uuid.uuid4()): a fresh primary key
NewId == CHOOSE t \in FreeIds : \A u \in FreeIds : t <= u
\* default=datetime.utcnow: the clock does not run backwards between rows
Now == {c \in Times : \A t \in Ids : Exists(t) => tasks[t].create_at <= c}

\* default=lambda: str(uuid.uuid4()) of task_id: a value no row carries ...
FreshTaskIds == LET unused == {i \in TaskIds : \A t \in Ids : tasks[t].task_id # i}
                IN  {i \in unused : \A j \in unused : i <= j}
\* ... or, uuid4 repeating itself, the task_id of a row of the table
TakenTaskIds == {tasks[t].task_id : t \in {u \in Ids : Exists(u)}}

\* Task(service=..., route=..., method=..., params=..., status=PENDING) with
\* the column defaults: result is left NULL
NewRow(req, tid, ts) ==
    [task_id |-> tid, service |-> req.service, status |-> "PENDING",
     route |-> req.route, method |-> req.method, params |-> Serialize(req.params),
     result |-> SqlNull, create_at |-> ts, committed |-> FALSE]

\* db.add(db_task); db.commit() flushes the INSERT: the defaults are
\* computed, the row is written in the request's transaction.  The only
\* uniqueness constraint of the table is the primary key, so any task_id
\* is accepted.
CreateTaskInsert(req, tid) ==
    /\ phase = "running"
    /\ FreeIds # {}
    /\ \E ts \in Now : tasks' = [tasks EXCEPT ![NewId] = NewRow(req, tid, ts)]
    /\ UNCHANGED <<lifeVars, response, workerVars>>

\* db.commit() commits: the row becomes visible; db.refresh, and the handler
\* returns task_id (200)
CreateTaskCommit(t) ==
    /\ phase = "running"
    /\ Exists(t) /\ ~tasks[t].committed
    /\ tasks' = [tasks EXCEPT ![t].committed = TRUE]
    /\ response' = 200
    /\ UNCHANGED <<lifeVars, workerVars>>

\* uuid4 gives the new row the primary key of a committed row: the flush
\* raises IntegrityError.  create_task does not call commit_or_rollback and
\* has no handler for it, so the exception leaves the handler (the session
\* is closed, the transaction rolled back) and the framework answers 500.
CreateTaskConflict ==
    /\ phase = "running"
    /\ \E t \in Ids : Visible(t)
    /\ response' = 500
    /\ UNCHANGED <<lifeVars, tasks, workerVars>>

\* ------------------------------------------------------------- poll_task
\* select(Task).where(Task.task_id == task_id): the committed rows that match
Lookup(tid) == {t \in Ids : Visible(t) /\ tasks[t].task_id = tid}

\* `status: RequestStatus` of TaskStatusResponse on the wire: the member's value
WireStatus(st) ==
    CASE st = "PENDING" -> "pending"
      [] st = "PROCESSING" -> "processing"
      [] st = "SUCCESS" -> "success"
      [] st = "FAILED" -> "failed"

NotFound == [code |-> 404, detail |-> "Task not found", task_id |-> 0,
             status |-> "-", result |-> "-"]
TaskStatusResponse(t) ==
    [code |-> 200, detail |-> "-", task_id |-> tasks[t].task_id,
     status |-> WireStatus(Status(t)), result |-> Result(t)]

\* a poll_task that answers only for tasks in a terminal status
PollRepliesTerminalOnly(tid) ==
    IF \A t \in Lookup(tid) : ~Terminal(t) THEN {NotFound}
    ELSE {TaskStatusResponse(t) : t \in {u \in Lookup(tid) : Terminal(u)}}

\* the responses poll_task(task_id) may give: result.scalars().first() is
\* None, or one of the matching rows (the query has no order_by)
PollReplies(tid) ==
    IF Lookup(tid) = {} THEN {NotFound}
    ELSE {TaskStatusResponse(t) : t \in Lookup(tid)}

\* the task_id values a client may ask for: 0 is one no row carries
PollIds == {0} \cup TaskIds

\* GET /tasks/{task_id}: one SELECT in a session of its own, no write, no
\* lock, no wait; the response is one of PollReplies(tid)
PollTask(tid) ==
    /\ phase = "running"
    /\ PollReplies(tid) # {}
    /\ UNCHANGED vars

\* ------------------------------------------------------------- task_worker
Running(w) == ~Finished(w) /\ ~cancelReq[w]

\* the claim query returns a row, now locked by this transaction
ClaimSelectRow(w) ==
    /\ Running(w) /\ pc[w] = "select"
    /\ \E t \in ClaimQuery :
          /\ pc' = [pc EXCEPT ![w] = "locked"]
          /\ task' = [task EXCEPT ![w] = t]
    /\ queried' = [queried EXCEPT ![w] = [eligible |-> Claimable, skipped |-> Skipped]]
    /\ UNCHANGED <<lifeVars, response, tasks, out, cancelReq, dispatched, outcome, finalized>>

\* the claim query returns None: asyncio.sleep(0.3) inside the transaction
ClaimSelectNone(w) ==
    /\ Running(w) /\ pc[w] = "select"
    /\ ClaimQuery = {}
    /\ pc' = [pc EXCEPT ![w] = "sleep"]
    /\ task' = [task EXCEPT ![w] = NoTask]
    /\ UNCHANGED <<lifeVars, response, tasks, out, cancelReq, dispatched, outcome, finalized, queried>>

\* the sleep ends; `continue` leaves the transaction and starts the next iteration
Sleep(w) ==
    /\ Running(w) /\ pc[w] = "sleep"
    /\ pc' = [pc EXCEPT ![w] = "select"]
    /\ UNCHANGED <<lifeVars, response, tasks, task, out, cancelReq, dispatched, outcome, finalized, queried>>

\* a claim whose status update is not written before the dispatch
ClaimedRowStillPending(row) == row

\* a claim that also writes the result column
ClaimedRowWithResult(row) == [row EXCEPT !.status = "PROCESSING", !.result = Serialize(Detail)]

\* task.status = RequestStatus.PROCESSING, flushed at the commit
ClaimedRow(row) == [row EXCEPT !.status = "PROCESSING"]

\* db.begin() exits: the UPDATE is flushed and committed, the lock released
ClaimCommit(w) ==
    /\ Running(w) /\ pc[w] = "locked"
    /\ tasks' = [tasks EXCEPT ![task[w]] = ClaimedRow(@)]
    /\ pc' = [pc EXCEPT ![w] = "claimed"]
    /\ queried' = [queried EXCEPT ![w] = NoQuery]
    /\ UNCHANGED <<lifeVars, response, task, out, cancelReq, dispatched, outcome, finalized>>

\* the session is closed and process_task(task) is called: the request is sent
DispatchCall(w) ==
    /\ Running(w) /\ pc[w] = "claimed"
    /\ pc' = [pc EXCEPT ![w] = "dispatch"]
    /\ dispatched' = [dispatched EXCEPT ![task[w]] = Append(@, w)]
    /\ UNCHANGED <<lifeVars, response, tasks, task, out, cancelReq, outcome, finalized, queried>>

Outcome(w, resp) == ProcessTask(tasks[task[w]].method, resp)

\* process_task returns: task_result is bound, the SUCCESS update is next
DispatchReturn(w) ==
    /\ Running(w) /\ pc[w] = "dispatch"
    /\ \E resp \in Responses :
          /\ Outcome(w, resp).kind = "return"
          /\ out' = [out EXCEPT ![w] = Outcome(w, resp).value]
          /\ outcome' = [outcome EXCEPT ![task[w]] = Outcome(w, resp)]
    /\ pc' = [pc EXCEPT ![w] = "fin_success"]
    /\ UNCHANGED <<lifeVars, response, tasks, task, cancelReq, dispatched, finalized, queried>>

\* except httpx.HTTPStatusError as e: error_detail from the response body
DispatchHTTPStatusError(w) ==
    /\ Running(w) /\ pc[w] = "dispatch"
    /\ \E resp \in Responses :
          /\ Outcome(w, resp).kind = "HTTPStatusError"
          /\ out' = [out EXCEPT ![w] = ErrorDetail(Outcome(w, resp).value)]
          /\ outcome' = [outcome EXCEPT ![task[w]] = Outcome(w, resp)]
    /\ pc' = [pc EXCEPT ![w] = "fin_failed"]
    /\ UNCHANGED <<lifeVars, response, tasks, task, cancelReq, dispatched, finalized, queried>>

\* except Exception as e, raised by process_task: {"detail": str(e)}
DispatchException(w) ==
    /\ Running(w) /\ pc[w] = "dispatch"
    /\ \E resp \in Responses :
          /\ Outcome(w, resp).kind = "Exception"
          /\ out' = [out EXCEPT ![w] = Outcome(w, resp).value]
          /\ outcome' = [outcome EXCEPT ![task[w]] = Outcome(w, resp)]
    /\ pc' = [pc EXCEPT ![w] = "fin_failed"]
    /\ UNCHANGED <<lifeVars, response, tasks, task, cancelReq, dispatched, finalized, queried>>

\* a finalize update without its where clause: every row is written
FinalizeEveryRow(id, status, result) ==
    [t \in Ids |-> IF Exists(t)
                   THEN [tasks[t] EXCEPT !.status = status, !.result = Serialize(result)]
                   ELSE tasks[t]]

\* a finalize update that sets the status and leaves the result column alone
FinalizeStatusOnly(id, status, result) == [tasks EXCEPT ![id].status = status]

\* update(Task).where(Task.id == task.id).values(status=..., result=...)
Finalize(id, status, result) ==
    [tasks EXCEPT ![id].status = status, ![id].result = Serialize(result)]

\* where the worker goes once a finalize transaction has committed:
\* the end of the loop body, that is the next iteration
NextIteration == "select"

\* the SUCCESS update commits
FinalizeSuccess(w) ==
    /\ Running(w) /\ pc[w] = "fin_success"
    /\ tasks' = Finalize(task[w], "SUCCESS", out[w])
    /\ pc' = [pc EXCEPT ![w] = NextIteration]
    /\ task' = [task EXCEPT ![w] = NoTask]
    /\ out' = [out EXCEPT ![w] = None]
    /\ finalized' = [finalized EXCEPT ![task[w]] = Append(@, w)]
    /\ UNCHANGED <<lifeVars, response, cancelReq, dispatched, outcome, queried>>

\* an except handler that ends the coroutine after its FAILED update
StopAfterFailedFinalize == "crashed"

\* where the worker goes once the FAILED update of an except handler has
\* committed: print(...), then the next iteration
AfterFailedFinalize == "select"

\* the FAILED update commits
FinalizeFailed(w) ==
    /\ Running(w) /\ pc[w] = "fin_failed"
    /\ tasks' = Finalize(task[w], "FAILED", out[w])
    /\ pc' = [pc EXCEPT ![w] = AfterFailedFinalize]
    /\ task' = [task EXCEPT ![w] = NoTask]
    /\ out' = [out EXCEPT ![w] = None]
    /\ finalized' = [finalized EXCEPT ![task[w]] = Append(@, w)]
    /\ UNCHANGED <<lifeVars, response, cancelReq, dispatched, outcome, queried>>

\* ------------------------------------------------------------- failures
\* the awaits inside `async with db.begin()` of the claim transaction
InClaim == {"select", "sleep", "locked"}

\* a transaction block whose exit on an exception keeps the flushed update
RollbackKeepsWrite(row) == ClaimedRow(row)

\* `async with db.begin()` is left by an exception: the transaction is rolled
\* back, the flushed or pending `status = PROCESSING` is discarded and the
\* row is as the SELECT found it
Rollback(row) == row

\* the table after worker w's open claim transaction, if it has a row
\* selected, ended on an exception
ClaimAborted(w) ==
    IF pc[w] = "locked" THEN [tasks EXCEPT ![task[w]] = Rollback(@)] ELSE tasks

\* The claim transaction raises (the SELECT, or the commit): the transaction
\* is rolled back and the exception leaves `while True`, which has no handler
\* for it but `except asyncio.CancelledError`: the coroutine ends.
DbErrorClaim(w) ==
    /\ Running(w) /\ pc[w] \in InClaim
    /\ pc' = [pc EXCEPT ![w] = "crashed"]
    /\ tasks' = ClaimAborted(w)
    /\ task' = [task EXCEPT ![w] = NoTask]
    /\ queried' = [queried EXCEPT ![w] = NoQuery]
    /\ UNCHANGED <<lifeVars, response, out, cancelReq, dispatched, outcome, finalized>>

\* The SUCCESS update raises inside the `try`: `except Exception` takes it
\* and issues the FAILED update with {"detail": str(e)}.
DbErrorFinalizeSuccess(w) ==
    /\ Running(w) /\ pc[w] = "fin_success"
    /\ pc' = [pc EXCEPT ![w] = "fin_failed"]
    /\ out' = [out EXCEPT ![w] = Detail]
    /\ finalized' = [finalized EXCEPT ![task[w]] = Append(@, w)]
    /\ UNCHANGED <<lifeVars, response, tasks, task, cancelReq, dispatched, outcome, queried>>

\* The FAILED update raises inside an except handler: nothing catches it.
DbErrorFinalizeFailed(w) ==
    /\ Running(w) /\ pc[w] = "fin_failed"
    /\ pc' = [pc EXCEPT ![w] = "crashed"]
    /\ finalized' = [finalized EXCEPT ![task[w]] = Append(@, w)]
    /\ UNCHANGED <<lifeVars, response, tasks, task, out, cancelReq, dispatched, outcome, queried>>

\* CancelledError taken by `except Exception` (as when it derives from Exception)
CancelCaughtAsException(at) ==
    IF at \in {"dispatch", "fin_success"} THEN "fin_failed" ELSE "cancelled"

\* Where CancelledError, raised at the await the worker is suspended at,
\* takes it: CancelledError is a BaseException, so `except Exception` lets it
\* through and `except asyncio.CancelledError` re-raises it.
CancelTarget(at) == "cancelled"

\* the pending cancellation is delivered at the worker's await
Cancelled(w) ==
    /\ cancelReq[w]
    /\ cancelReq' = [cancelReq EXCEPT ![w] = FALSE]
    /\ pc' = [pc EXCEPT ![w] = CancelTarget(pc[w])]
    /\ out' = [out EXCEPT ![w] = IF CancelTarget(pc[w]) = "fin_failed" THEN Detail ELSE @]
    /\ task' = [task EXCEPT ![w] = IF pc[w] \in InClaim THEN NoTask ELSE @]
    /\ queried' = [queried EXCEPT ![w] = NoQuery]
    /\ tasks' = ClaimAborted(w)
    /\ UNCHANGED <<lifeVars, response, dispatched, outcome, finalized>>

\* ------------------------------------------------------------- specification
WorkerStep(w) ==
    \/ ClaimSelectRow(w)
    \/ ClaimSelectNone(w)
    \/ Sleep(w)
    \/ ClaimCommit(w)
    \/ DispatchCall(w)
    \/ DispatchReturn(w)
    \/ DispatchHTTPStatusError(w)
    \/ DispatchException(w)
    \/ FinalizeSuccess(w)
    \/ FinalizeFailed(w)

WorkerFailure(w) ==
    \/ DbErrorClaim(w)
    \/ DbErrorFinalizeSuccess(w)
    \/ DbErrorFinalizeFailed(w)
    \/ Cancelled(w)

Next ==
    \/ CreateAll
    \/ Startup
    \/ Shutdown
    \/ Dispose
    \/ \E req \in Requests : \E tid \in FreshTaskIds : CreateTaskInsert(req, tid)
    \/ \E t \in Ids : CreateTaskCommit(t)
    \/ \E tid \in PollIds : PollTask(tid)
    \/ \E w \in Workers : WorkerStep(w)
    \/ \E w \in Workers : WorkerFailure(w)

Spec == Init /\ [][Next]_vars

\* The runs without shutdown and without database errors: every await of a
\* worker completes, and the event loop resumes every worker whose await
\* has completed.
LiveNext ==
    \/ CreateAll
    \/ Startup
    \/ \E req \in Requests : \E tid \in FreshTaskIds : CreateTaskInsert(req, tid)
    \/ \E t \in Ids : CreateTaskCommit(t)
    \/ \E tid \in PollIds : PollTask(tid)
    \/ \E w \in Workers : WorkerStep(w)

LiveSpec == Init /\ [][LiveNext]_vars /\ \A w \in Workers : WF_vars(WorkerStep(w))

\* The runs of a process in which the lifespan may be entered more than once.
RestartNext == Next \/ Reenter

RestartSpec == Init /\ [][RestartNext]_vars

\* The runs in which uuid4 may also return a value a row already carries,
\* as task_id or as primary key.
CollisionNext ==
    \/ Next
    \/ \E req \in Requests : \E tid \in TakenTaskIds : CreateTaskInsert(req, tid)
    \/ CreateTaskConflict

CollisionSpec == Init /\ [][CollisionNext]_vars

\* All runs, with the event loop's guarantees at shutdown: a task that
\* cancel() was called on is resumed with CancelledError, and the gather
\* returns once every worker has ended.
StopSpec == Init /\ [][Next]_vars
                 /\ \A w \in Workers : WF_vars(Cancelled(w))
                 /\ WF_vars(Dispose)


\* ------------------------------------------------------------- properties
Older(a, b) == tasks[a].create_at < tasks[b].create_at
PendingRow(t) == Visible(t) /\ Status(t) = "PENDING"
\* the worker has a row selected or claimed and has not finalized it
Holding(w) == pc[w] \in {"locked", "claimed", "dispatch", "fin_success", "fin_failed"}

\* the steps a row's status may take
StatusStep(old, new) ==
    \/ new.status = old.status
    \/ old.status = "absent" /\ new.status = "PENDING"
    \/ old.status = "PENDING" /\ new.status = "PROCESSING"
    \/ old.status = "PROCESSING" /\ new.status \in {"SUCCESS", "FAILED"}

\* C1: in every step of every run (create-task, claims, dispatch outcomes,
\* finalizes, cancellations, database errors) each row's status stays or moves
\* one step along PENDING -> PROCESSING -> {SUCCESS, FAILED}: never back from
\* PROCESSING to PENDING, never out of a terminal status, never from PENDING
\* straight to a terminal status.
C1_StatusPrefix == [][\A t \in Ids : StatusStep(tasks[t], tasks'[t])]_vars

\* a run took one row to SUCCESS and another to FAILED
C1_Witness == \E t, u \in Ids : Visible(t) /\ Status(t) = "SUCCESS"
                                /\ Visible(u) /\ Status(u) = "FAILED"

\* C2: no row is selected or claimed by two workers at once, and the record
\* of process_task calls holds each row at most once.
C2_ClaimedOnce ==
    /\ \A t \in Ids : Len(dispatched[t]) <= 1
    /\ \A w1, w2 \in Workers :
          (w1 # w2 /\ Holding(w1) /\ Holding(w2)) => task[w1] # task[w2]

\* two workers have each called process_task, for different rows, and both
\* calls are in flight
C2_Witness == \E w1, w2 \in Workers :
                 /\ w1 # w2 /\ pc[w1] = "dispatch" /\ pc[w2] = "dispatch"
                 /\ dispatched[task[w1]] = <<w1>> /\ dispatched[task[w2]] = <<w2>>

\* C3: with the workers running, no shutdown, no database error, every
\* dispatch call returning or raising and the workers scheduled fairly, every
\* committed task eventually is SUCCESS or FAILED.
C3_AllTerminal ==
    \A t \in Ids : (phase = "running" /\ ~TESTING /\ Visible(t)) ~> Terminal(t)

\* every one of the MaxTasks tasks has reached a terminal status
C3_Witness == \A t \in Ids : Terminal(t)

\* C4: every task whose status is SUCCESS or FAILED has a non-null result,
\* whatever the dispatcher returned and whatever body the failing response
\* carried.
C4_TerminalHasResult == \A t \in Ids : Terminal(t) => Result(t) # None

\* C5: every task whose status is PENDING or PROCESSING has a null result.
C5_NonTerminalResultNull ==
    \A t \in Ids : (Exists(t) /\ Status(t) \in {"PENDING", "PROCESSING"})
                      => Result(t) = None

\* one task is PROCESSING, its result still null, beside a terminal task
\* whose result was written
C5_Witness == \E t, u \in Ids : /\ Visible(t) /\ Status(t) = "PROCESSING"
                                /\ Result(t) = None
                                /\ Terminal(u) /\ Result(u) # None

\* C6: a claim query that returns row b leaves behind no row that is
\* PENDING, committed and not locked by another claim transaction and has an
\* earlier create_at than b.
C6_ClaimTakesOldest ==
    [][\A w \in Workers :
          (pc[w] = "select" /\ pc'[w] = "locked")
             => \A a \in Ids : (PendingRow(a) /\ ~Locked(a)) => ~Older(a, task'[w])]_vars

\* a worker has selected the older of two rows while the newer one is
\* PENDING and unlocked
C6_Witness == \E w \in Workers, b \in Ids :
                 /\ pc[w] = "locked" /\ task[w] # b
                 /\ PendingRow(b) /\ ~Locked(b) /\ Older(task[w], b)

\* C7, as claimed: the commit of b's PENDING -> PROCESSING transition never
\* happens while a row a with an earlier create_at is PENDING, for the rows a
\* that were committed and PENDING when b's claim query ran.
C7_CommitFifo ==
    [][\A w \in Workers :
          (pc[w] = "locked" /\ pc'[w] = "claimed")
             => \A a \in queried[w].eligible \cup queried[w].skipped :
                   PendingRow(a) => ~Older(a, task[w])]_vars

\* C7, amended: when the commit of b's transition happens while an older row
\* a is committed and PENDING, a was not among the rows b's claim query could
\* choose from (a was locked by another claim transaction then, or its
\* insert was not yet committed).
C7_CommitFifoAmongEligible ==
    [][\A w \in Workers :
          (pc[w] = "locked" /\ pc'[w] = "claimed")
             => \A a \in Ids : (PendingRow(a) /\ Older(a, task[w]))
                                  => a \notin queried[w].eligible]_vars

\* b is PROCESSING while an older committed row is still PENDING
C7_Witness == \E a, b \in Ids : /\ PendingRow(a) /\ Older(a, b)
                                /\ Visible(b) /\ Status(b) = "PROCESSING"

\* the claim of the row committed and the worker ended before a finalize did
Orphaned(t) == \E w \in Workers : pc[w] \in {"cancelled", "crashed"} /\ task[w] = t

\* C8: a row whose claiming worker was cancelled or ended on an exception
\* between the claim's commit and a finalize's commit is PROCESSING in every
\* state from then on, and a cancellation delivered to a worker ends it
\* without any write: no FAILED finalize follows.
C8_OrphanStaysProcessing ==
    /\ [](\A t \in Ids : Orphaned(t) => Status(t) = "PROCESSING")
    /\ [][\A w \in Workers :
             (cancelReq[w] /\ ~cancelReq'[w])
                => (pc'[w] = "cancelled" /\ tasks' = tasks)]_vars

\* one worker was cancelled and another ended on an exception, each with a
\* claimed row it had not finalized
C8_Witness == \E w1, w2 \in Workers :
                 /\ pc[w1] = "cancelled" /\ task[w1] # NoTask
                 /\ pc[w2] = "crashed" /\ task[w2] # NoTask

\* C9: a database error in the claim transaction or in a finalize transaction
\* does not end the worker.
C9_DbErrorKeepsWorker == \A w \in Workers : pc[w] # "crashed"

\* C10: a worker whose dispatch raised and that is about to write FAILED
\* goes on: it gets back to the claim step and claims a row, unless it finds
\* no row to claim there.
C10_FailureDoesNotStopWorker ==
    \A w \in Workers :
       (pc[w] = "fin_failed")
          ~> \/ pc[w] = "locked"
             \/ pc[w] = "select" /\ \A t \in Ids : ~(PendingRow(t) /\ ~Locked(t))

\* a worker whose dispatch of one row failed has selected another row
C10_Witness == \E w \in Workers, t \in Ids :
                  /\ Visible(t) /\ Status(t) = "FAILED" /\ dispatched[t] = <<w>>
                  /\ pc[w] = "locked" /\ task[w] # t

\* the row's process_task call returned a value
Returned(t) == outcome[t].kind = "return"
\* the row's process_task call raised
Raised(t) == outcome[t].kind \in {"HTTPStatusError", "Exception"}

\* C11: a task is SUCCESS only if its process_task call returned normally,
\* and its stored result then is exactly the value the call returned; and in
\* the runs where nothing else fails (no shutdown, no database error) a task
\* whose call returned p eventually is SUCCESS with result p.
C11_SuccessIsDispatcherReturn ==
    /\ [](\A t \in Ids : (Exists(t) /\ Status(t) = "SUCCESS")
                             => (Returned(t) /\ Result(t) = outcome[t].value))
    /\ \A t \in Ids :
          Returned(t) ~> (Status(t) = "SUCCESS" /\ Result(t) = outcome[t].value)

\* one task is SUCCESS with the JSON body its call parsed, another with the
\* {status_code, headers} value a HEAD call builds
C11_Witness == \E t, u \in Ids :
                  /\ Status(t) = "SUCCESS" /\ outcome[t] = [kind |-> "return", value |-> "object"]
                  /\ Result(t) = "object"
                  /\ Status(u) = "SUCCESS" /\ outcome[u].value = StatusHeaders
                  /\ Result(u) = StatusHeaders

\* the worker is between the raise of the row's call and its FAILED update
WritingFailed(t) == \E w \in Workers : pc[w] = "fin_failed" /\ task[w] = t

\* C12, as claimed: a task whose process_task call raised is FAILED once no
\* worker is working on it any more, never left PROCESSING (the workers a
\* database error ended are left aside).
C12_RaisedEndsFailed ==
    \A t \in Ids :
       (Raised(t) /\ ~\E w \in Workers : task[w] = t /\ (Holding(w) \/ pc[w] = "crashed"))
          => Status(t) = "FAILED"

\* C12, amended: a task whose process_task call raised is never SUCCESS; it
\* is FAILED, or its worker is about to write FAILED, or its worker was
\* cancelled or ended by an error of the FAILED update before that update
\* committed (the task then stays PROCESSING); and when it is FAILED its
\* result is, for an HTTP status error, the response body parsed as JSON
\* (None for the body null) or {detail} when the body is not JSON, and
\* {detail} for any other exception.
C12_RaisedIsFailedByKind ==
    \A t \in Ids :
       Raised(t) =>
          /\ Status(t) # "SUCCESS"
          /\ Status(t) = "FAILED" \/ WritingFailed(t) \/ Orphaned(t)
          /\ Status(t) = "FAILED" =>
                /\ outcome[t].kind = "Exception" => Result(t) = Detail
                /\ (outcome[t].kind = "HTTPStatusError" /\ outcome[t].value = "object")
                      => Result(t) = "object"
                /\ (outcome[t].kind = "HTTPStatusError" /\ outcome[t].value = "null")
                      => Result(t) = None
                /\ (outcome[t].kind = "HTTPStatusError" /\ outcome[t].value = TextBody)
                      => Result(t) = Detail

\* one task FAILED with the JSON body of the failing response, another with
\* the {detail} of an exception that is not an HTTP status error
C12_Witness == \E t, u \in Ids :
                  /\ Status(t) = "FAILED" /\ outcome[t].kind = "HTTPStatusError"
                  /\ Result(t) = "object"
                  /\ Status(u) = "FAILED" /\ outcome[u].kind = "Exception"
                  /\ Result(u) = Detail

\* the lifespan has ended: the gather returned and, outside testing mode,
\* the pool was disposed
Ended == phase \in {"stopped", "disposed"}

\* C13: the shutdown step requests the cancellation of every worker that has
\* not ended; from then on every worker ends, wherever it was suspended, and
\* the lifespan ends; once the lifespan has ended (the pool disposed) every
\* worker has ended, and no step changes a row, a worker's position or the
\* record of dispatch calls.
C13_ShutdownEndsWorkers ==
    /\ [][(phase = "running" /\ phase' = "stopping")
             => \A w \in Workers : ~Finished(w) => cancelReq'[w]]_vars
    /\ [](Ended => \A w \in Workers : Finished(w) /\ ~cancelReq[w])
    /\ [][Ended => UNCHANGED <<tasks, pc, task, dispatched, outcome, finalized>>]_vars
    /\ \A w \in Workers : (phase = "stopping") ~> Finished(w)
    /\ (phase = "stopping") ~> Ended

\* the pool is disposed; one worker was cancelled in its claim transaction
\* or sleep, the other between its claim's commit and its finalize
C13_Witness == /\ phase = "disposed"
               /\ \E w1, w2 \in Workers :
                     /\ pc[w1] = "cancelled" /\ task[w1] = NoTask
                     /\ pc[w2] = "cancelled" /\ task[w2] # NoTask

\* C14: in testing mode the handle list stays empty, no worker is started,
\* and every task stays PENDING with its result column NULL and is never
\* dispatched.
C14_TestingModeNoWorkers ==
    TESTING =>
       /\ worker_tasks = 0
       /\ \A w \in Workers : pc[w] = "notstarted"
       /\ \A t \in Ids : Exists(t) =>
             /\ Status(t) = "PENDING" /\ tasks[t].result = SqlNull
             /\ Result(t) = None /\ dispatched[t] = <<>>

\* a testing-mode lifespan has ended with MaxTasks committed tasks
C14_Witness == TESTING /\ phase = "stopped" /\ \A t \in Ids : PendingRow(t)

\* C15: outside testing mode, while the application of any lifespan run
\* serves requests the handle list holds exactly as many handles as the
\* lifespan spawns workers (WORKER_COUNT), no worker has been started before
\* the schema creation ran, and the pool is disposed only by a shutdown
\* whose workers have all ended.
C15_HandlesEqualWorkerCount ==
    /\ (~TESTING /\ phase \in {"running"}) => worker_tasks = NumWorkers
    /\ (\E w \in Workers : pc[w] # "notstarted") => schema
    /\ phase = "disposed" => (~TESTING /\ \A w \in Workers : Finished(w))

\* the request a row carries, its params as a session loads them
RequestOfRow(t) ==
    [service |-> tasks[t].service, route |-> tasks[t].route,
     params |-> Deserialize(tasks[t].params), method |-> tasks[t].method]

\* C16: for every task create_task has committed and no worker has claimed,
\* the lookup of its task_id finds that row and no other, the row is PENDING
\* with a null result and carries one of the requests, and poll_task's only
\* answer is that row's task_id with status pending and result null.
C16_InsertLookupRoundTrip ==
    \A t \in Ids :
       PendingRow(t) =>
          /\ Lookup(tasks[t].task_id) = {t}
          /\ Result(t) = None
          /\ RequestOfRow(t) \in Requests
          /\ PollReplies(tasks[t].task_id) =
                {[code |-> 200, detail |-> "-", task_id |-> tasks[t].task_id,
                  status |-> "pending", result |-> None]}

\* C17: for every task_id a client may ask for, poll_task answers 404 "Task
\* not found" exactly when no committed row has that task_id, and otherwise
\* answers 200 with the task_id and the current status and result of a row
\* that has it, whatever that status is; while the application serves
\* requests it can always answer, and answering changes nothing.
C17_LookupFaithful ==
    \A tid \in PollIds :
       /\ \A r \in PollReplies(tid) :
             /\ r.code \in {200, 404}
             /\ r.code = 404 <=> (\A t \in Ids : ~(Visible(t) /\ tasks[t].task_id = tid))
             /\ r.code = 404 => r.detail = "Task not found"
             /\ r.code = 200 =>
                   \E t \in Ids :
                      /\ Visible(t) /\ tasks[t].task_id = tid /\ r.task_id = tid
                      /\ r.result = Result(t)
                      /\ \/ Status(t) = "PENDING" /\ r.status = "pending"
                         \/ Status(t) = "PROCESSING" /\ r.status = "processing"
                         \/ Status(t) = "SUCCESS" /\ r.status = "success"
                         \/ Status(t) = "FAILED" /\ r.status = "failed"
       /\ (\E t \in Ids : Visible(t) /\ tasks[t].task_id = tid)
             => \E r \in PollReplies(tid) : r.code = 200
       /\ phase = "running" => ENABLED PollTask(tid)

\* poll_task answers "processing" with a null result for one task,
\* "failed" with its result for another, and 404 for a task_id no row has
C17_Witness ==
    /\ phase = "running"
    /\ PollReplies(0) = {NotFound}
    /\ \E t, u \in Ids :
          /\ Status(t) = "PROCESSING"
          /\ PollReplies(tasks[t].task_id) =
                {[code |-> 200, detail |-> "-", task_id |-> tasks[t].task_id,
                  status |-> "processing", result |-> None]}
          /\ Status(u) = "FAILED"
          /\ PollReplies(tasks[u].task_id) =
                {[code |-> 200, detail |-> "-", task_id |-> tasks[u].task_id,
                  status |-> "failed", result |-> Detail]}

\* C18: create_task answers 200, or 409 when its insert violated a
\* uniqueness constraint; it never answers with another status.
C18_ConflictIs409 == response \in {NoResponse, 200, 409}

\* C19: no two rows of the table carry the same task_id (the primary key id
\* is the index of the table, so no two rows share it).
C19_TaskIdUnique ==
    \A t, u \in Ids : (Exists(t) /\ Exists(u) /\ t # u)
                          => tasks[t].task_id # tasks[u].task_id

\* C20: a row's process_task call is made only once the row is committed
\* PROCESSING, and the row is PROCESSING all the while the call is in
\* flight; a call has ended only if it was made; a worker is at a finalize
\* update only for a row whose call has returned or raised; and a row is in a
\* terminal status only if its call has ended.
C20_ClaimDispatchFinalizeOrder ==
    /\ \A t \in Ids :
          /\ dispatched[t] # <<>> => (Visible(t) /\ Status(t) # "PENDING")
          /\ outcome[t] # NoOutcome => dispatched[t] # <<>>
          /\ Terminal(t) => outcome[t] # NoOutcome
    /\ \A w \in Workers :
          /\ pc[w] = "dispatch" =>
                /\ Visible(task[w]) /\ Status(task[w]) = "PROCESSING"
                /\ dispatched[task[w]] = <<w>> /\ outcome[task[w]] = NoOutcome
          /\ pc[w] \in {"fin_success", "fin_failed"} =>
                /\ Status(task[w]) = "PROCESSING"
                /\ dispatched[task[w]] = <<w>> /\ outcome[task[w]] # NoOutcome

\* one worker's call is in flight for a PROCESSING row while the other
\* worker, its call ended, is at its finalize update
C20_Witness == \E w1, w2 \in Workers :
                  /\ pc[w1] = "dispatch" /\ Status(task[w1]) = "PROCESSING"
                  /\ pc[w2] \in {"fin_success", "fin_failed"}
                  /\ outcome[task[w2]] # NoOutcome

\* C21: a task whose process_task call returned normally is never FAILED,
\* whatever happens to its SUCCESS update.
C21_ReturnedNeverFailed ==
    \A t \in Ids : Returned(t) => Status(t) # "FAILED"

\* the worker whose claim transaction moved the row to PROCESSING: the one
\* that went on to call process_task for it
ClaimedBy(t, w) == dispatched[t] # <<>> /\ dispatched[t][1] = w

\* C22: every finalize update issued for a row was issued by the worker
\* that claimed it, and at most one finalize update is issued for a row's
\* claim, the updates that raised counted.
C22_OneFinalizePerClaim ==
    \A t \in Ids :
       /\ Len(finalized[t]) <= 1
       /\ \A i \in DOMAIN finalized[t] : ClaimedBy(t, finalized[t][i])

\* the columns no worker operation writes (the primary key id is the index)
Identity(row) == [task_id |-> row.task_id, service |-> row.service, route |-> row.route,
                  method |-> row.method, params |-> row.params]

\* C23: no step deletes a row or changes the task_id, service, route,
\* method or params of a row; and a step that changes the status or the
\* result of a row is a step of a worker that holds that row, selected by its
\* open claim transaction or claimed by it, and changes no other row.
C23_WorkerFrame ==
    [][\A t \in Ids :
          Exists(t) =>
             /\ tasks'[t] # NoRow
             /\ Identity(tasks'[t]) = Identity(tasks[t])
             /\ (tasks'[t].status # tasks[t].status \/ tasks'[t].result # tasks[t].result)
                   => /\ \E w \in Workers :
                            /\ task[w] = t /\ pc'[w] # pc[w]
                            /\ pc[w] \in {"locked", "fin_success", "fin_failed"}
                      /\ \A u \in Ids \ {t} : tasks'[u] = tasks[u]]_vars

\* a worker has finalized one row; the other row, committed before, is
\* still PENDING and both carry a request as create_task stored it
C23_Witness == \E t, u \in Ids :
                  /\ Terminal(t) /\ finalized[t] # <<>> /\ PendingRow(u)
                  /\ Older(u, t)
                  /\ RequestOfRow(t) \in Requests /\ RequestOfRow(u) \in Requests

\* C24: a worker that is cancelled or ends on an error while its claim
\* transaction has a row selected leaves that row as it was, PENDING, with
\* no lock on it and among the rows a claim query may return; a row becomes
\* PROCESSING only in the step in which a worker's claim transaction
\* commits for it; and a row a claim transaction has selected is PENDING.
C24_ClaimAtomic ==
    /\ [][\A w \in Workers :
             (pc[w] = "locked" /\ pc'[w] \in {"cancelled", "crashed"})
                => /\ tasks'[task[w]] = tasks[task[w]]
                   /\ tasks'[task[w]].status = "PENDING"
                   /\ \A v \in Workers : ~(pc'[v] = "locked" /\ task'[v] = task[w])
                   /\ task[w] \in Claimable']_vars
    /\ [][\A t \in Ids :
             (tasks'[t].status = "PROCESSING" /\ tasks[t].status # "PROCESSING")
                => \E w \in Workers :
                      pc[w] = "locked" /\ pc'[w] = "claimed" /\ task[w] = t]_vars
    /\ [](\A w \in Workers : pc[w] = "locked" => PendingRow(task[w]))

\* a claim query skipped row a because the other worker's claim transaction
\* had it locked; that worker was then cancelled or ended on an error
\* before its commit, and a is PENDING, unlocked and claimable
C24_Witness == \E w1, w2 \in Workers, a \in Ids :
                  /\ pc[w2] = "locked" /\ a \in queried[w2].skipped
                  /\ pc[w1] \in {"cancelled", "crashed"} /\ task[w1] = NoTask
                  /\ PendingRow(a) /\ ~Locked(a) /\ a \in Claimable

=============================================================================
